---- MODULE Spec2Model ----
(***************************************************************************)
(* A model of the `reason` client library (src/src/lib.rs):                *)
(*   - Reason::complete, the streaming completion engine: line framing of  *)
(*     the response body, parsing of each line, mode classification;       *)
(*   - Reason::reply and Reply::update, the fold of the events;            *)
(*   - Reason::boot and Reason::connect, and the lifetime of the shared    *)
(*     Server handle (clone, drop, Drop for Server).                       *)
(* Bytes are strings; a JSON document is one byte of the set                *)
(* JsonByte (what serde_json makes of it is given by Deserialize); text is *)
(* a sequence of fragments, and push_str is concatenation.                 *)
(***************************************************************************)
EXTENDS Integers, Sequences, FiniteSets, TLC

VARIABLES
    \* ---- Reason::complete / Reason::reply
    chunking,         \* how the transport cuts the body: "any" | "line"
    body,             \* the bytes of the response body (what the backend sends)
    pos,              \* how many bytes of body were delivered by response.chunk()
    now,              \* Instant::now(), in ticks
    status,           \* what request.send() met: "none" | "2xx" | "non2xx" | "error"
    cpc,              \* complete: "request" | "stream" | "done" | "failed" | "idle"
    buffer,           \* complete's `buffer`
    mode,             \* complete's `mode`: "none" | "Reasoning" | "Messaging" | "ToolCalling"
    mode_started_at,  \* complete's `mode_started_at`
    events,           \* the events complete sent, in order
    parsed,           \* the lines complete handed to the parser, in order
    spanned,          \* some line handed to the parser arrived in more than one chunk
    outputs,          \* reply's `reply.outputs`
    forwarded,        \* the events reply sent on to its caller
    rpc,              \* reply: "running" | "ok" | "err" | "idle"
    \* ---- Reason::boot / Reason::connect / Drop for Server
    op,               \* the operation run: "boot" | "connect" | "none"
    env,              \* the machine: is llama-server installed, is docker
    bpc,              \* the await point the operation is at
    result,           \* its resolution: "pending" | "Ok" | an Error | "dropped"
    server,           \* the Server value built: "none" | "Process" | "Container" | "Remote"
    container,        \* the container id line was read from `docker create`
    trace,            \* the BootEvents sent, the commands run, the processes killed, in order
    child,            \* the llama-server child: "none" | "running" | "killed"
    create,           \* the `docker create` child: "none" | "running" | "exited" | "failed" | "killed"
    executor,         \* the llama-server launched, process or container: "none" | "up" | "exited"
    logTask,          \* the log_output task: "none" | "running" | "ended" | "aborted"
    progressTask,     \* the notify_progress task: "none" | "running" | "ended"
    ioErrors,         \* I/O errors met while spawning or reading the executor's output
    healthOk,         \* the last readiness request returned 2xx
    attempts,         \* readiness requests made (saturating at MaxAttempts)
    sleeps,           \* time::sleep calls completed (saturating at MaxAttempts)
    refs,             \* live Arc<Server> references (the Reason and its clones)
    clones            \* Reason::clone calls made

completeVars == <<chunking, body, pos, now, status, cpc, buffer, mode, mode_started_at,
                  events, parsed, spanned, outputs, forwarded, rpc>>
bootVars == <<op, env, bpc, result, server, container, trace, child, create, executor,
              logTask, progressTask, ioErrors, healthOk, attempts, sleeps, refs, clones>>
vars == <<completeVars, bootVars>>

----------------------------------------------------------------------------
(* Bounds of the model                                                     *)

MaxDeltas == 4       \* data lines of a body, transport cutting at line ends
MaxFrameLines == 2   \* lines of a body, transport cutting anywhere
MaxAttempts == 3     \* readiness requests of boot or connect
MaxLogs == 2         \* lines the launched executor prints
MaxClones == 2       \* clones made of a Reason
MaxEvents == 4       \* events folded into a Reply by a caller of Reply::update

----------------------------------------------------------------------------
(* Bytes, lines and JSON documents                                         *)

NL == "\n"
SP == " "
DataPrefix == <<"d", "a", "t", "a", ":">>

\* const PREFIX: usize = b"data:".len();
PREFIX == Len(DataPrefix)

\* The documents a body may carry, one byte each.
JsonByte == {"Ta", "Tb", "O", "C", "N", "Ua", "Ub", "E", "D"}

Text(content) == [shape |-> "Text", content |-> content]
New(id, name, arguments) ==
    [shape |-> "Call", call |-> "New", id |-> id, name |-> name, arguments |-> arguments]
Update(arguments) == [shape |-> "Call", call |-> "Update", arguments |-> arguments]

\* What serde_json makes of a slice: Ok(Data { choices }) or Err.
Parsed(choices) == [ok |-> TRUE, choices |-> choices]
ParseError == [ok |-> FALSE, choices |-> <<>>]

\* serde_json::from_slice::<Data> of one document.
\* "E" is {"choices":[]}; "D" is [DONE], which is no Data.
Deserialize(doc) ==
    CASE doc = "Ta" -> Parsed(<<Text(<<"a">>)>>)
      [] doc = "Tb" -> Parsed(<<Text(<<"b">>)>>)
      [] doc = "O"  -> Parsed(<<Text(<<"<think>">>)>>)
      [] doc = "C"  -> Parsed(<<Text(<<"</think>">>)>>)
      [] doc = "N"  -> Parsed(<<New("c1", "f", <<"{">>)>>)
      [] doc = "Ua" -> Parsed(<<Update(<<"a">>)>>)
      [] doc = "Ub" -> Parsed(<<Update(<<"b">>)>>)
      [] doc = "E"  -> Parsed(<<>>)
      [] OTHER      -> ParseError

RECURSIVE TrimStart(_)
TrimStart(s) == IF s # <<>> /\ Head(s) = SP THEN TrimStart(Tail(s)) ELSE s

RECURSIVE TrimEnd(_)
TrimEnd(s) ==
    IF s # <<>> /\ s[Len(s)] = SP THEN TrimEnd(SubSeq(s, 1, Len(s) - 1)) ELSE s

\* serde_json::from_slice(slice): one document, white space around it allowed.
FromSlice(slice) ==
    LET t == TrimEnd(TrimStart(slice))
    IN  IF Len(t) = 1 /\ t[1] \in JsonByte THEN Deserialize(t[1]) ELSE ParseError

Skip == [shape |-> "Skip"]

\* The delta a line yields, or Skip (the three `continue`s).
ParseLine(line) ==
    IF Len(line) < PREFIX THEN Skip
    ELSE LET data == FromSlice(SubSeq(line, PREFIX + 1, Len(line)))
         IN  IF ~data.ok THEN Skip
             ELSE IF data.choices = <<>> THEN Skip
             ELSE data.choices[1]

----------------------------------------------------------------------------
(* Line framing                                                            *)

RECURSIVE Split(_)
\* buffer.split(|byte| *byte == 0x0A)
Split(s) ==
    IF \A i \in 1..Len(s) : s[i] # NL THEN <<s>>
    ELSE LET i == CHOOSE k \in 1..Len(s) :
                      s[k] = NL /\ \A j \in 1..(k - 1) : s[j] # NL
         IN  <<SubSeq(s, 1, i - 1)>> \o Split(SubSeq(s, i + 1, Len(s)))

NotEmpty(bytes) == bytes # <<>>

\* .filter(|bytes| !bytes.is_empty())
Lines(buf) == SelectSeq(Split(buf), NotEmpty)

EndsWithNL(buf) == buf # <<>> /\ buf[Len(buf)] = NL

\* A variant of LastLine: the buffer is cleared after every chunk.
LastLine_Cleared(buf) == <<>>

\* let last_line = if buffer.ends_with(&[0x0A]) { &[] } else { lines.next_back().unwrap_or_default() };
LastLine(buf) ==
    IF EndsWithNL(buf) THEN <<>>
    ELSE IF Lines(buf) = <<>> THEN <<>>
    ELSE Lines(buf)[Len(Lines(buf))]

\* What `for line in lines` goes through, once next_back has taken its line.
CompleteLines(buf) ==
    IF EndsWithNL(buf) \/ Lines(buf) = <<>> THEN Lines(buf)
    ELSE SubSeq(Lines(buf), 1, Len(Lines(buf)) - 1)

----------------------------------------------------------------------------
(* Events and mode classification                                          *)

OutputAdded(output) == [type |-> "OutputAdded", output |-> output]
TextChanged(delta, duration) ==
    [type |-> "TextChanged", delta |-> delta, duration |-> duration]
ToolCallAdded(id, name, arguments) ==
    [type |-> "ToolCallAdded", id |-> id, name |-> name, arguments |-> arguments]
ArgumentsChanged(delta, duration) ==
    [type |-> "ArgumentsChanged", delta |-> delta, duration |-> duration]

\* Output::Reasoning(Reasoning::default()), Output::Message(String::new()),
\* Output::ToolCalls(Vec::new())
EmptyReasoning == [kind |-> "Reasoning", text |-> <<>>, duration |-> 0]
EmptyMessage == [kind |-> "Message", text |-> <<>>]
EmptyToolCalls == [kind |-> "ToolCalls", calls |-> <<>>]

\* content.contains(marker)
Contains(content, marker) == \E i \in 1..Len(content) : content[i] = marker

\* One state of the classifier and what it has sent.
ModeState(m, started, out) == [mode |-> m, mode_started_at |-> started, out |-> out]

\* Delta::Text, had a text delta met in mode Messaging sent an OutputAdded too.
ClassifyText_AddsAgain(st, content, t) ==
    IF st.mode \in {"none", "Messaging"} /\ Contains(content, "<think>")
    THEN ModeState("Reasoning", t, st.out \o <<OutputAdded(EmptyReasoning)>>)
    ELSE IF st.mode = "Reasoning" /\ Contains(content, "</think>")
    THEN ModeState("Messaging", t, st.out)
    ELSE IF st.mode = "none"
    THEN ModeState("Messaging", t,
                   st.out \o <<OutputAdded(EmptyMessage), TextChanged(content, 0)>>)
    ELSE IF st.mode = "Messaging"
    THEN ModeState(st.mode, st.mode_started_at,
                   st.out \o <<OutputAdded(EmptyMessage),
                               TextChanged(content, t - st.mode_started_at)>>)
    ELSE IF st.mode = "Reasoning"
    THEN ModeState(st.mode, st.mode_started_at,
                   st.out \o <<TextChanged(content, t - st.mode_started_at)>>)
    ELSE st

\* Delta::Text, had the close marker left mode_started_at as it was.
ClassifyText_KeepsTimer(st, content, t) ==
    IF st.mode \in {"none", "Messaging"} /\ Contains(content, "<think>")
    THEN ModeState("Reasoning", t, st.out \o <<OutputAdded(EmptyReasoning)>>)
    ELSE IF st.mode = "Reasoning" /\ Contains(content, "</think>")
    THEN ModeState("Messaging", st.mode_started_at, st.out)
    ELSE IF st.mode = "none"
    THEN ModeState("Messaging", t,
                   st.out \o <<OutputAdded(EmptyMessage), TextChanged(content, 0)>>)
    ELSE IF st.mode \in {"Reasoning", "Messaging"}
    THEN ModeState(st.mode, st.mode_started_at,
                   st.out \o <<TextChanged(content, t - st.mode_started_at)>>)
    ELSE st

\* Delta::Text, had the open marker's delta been sent as text too.
ClassifyText_EmitsMarker(st, content, t) ==
    IF st.mode \in {"none", "Messaging"} /\ Contains(content, "<think>")
    THEN ModeState("Reasoning", t,
                   st.out \o <<OutputAdded(EmptyReasoning), TextChanged(content, 0)>>)
    ELSE IF st.mode = "Reasoning" /\ Contains(content, "</think>")
    THEN ModeState("Messaging", t, st.out)
    ELSE IF st.mode = "none"
    THEN ModeState("Messaging", t,
                   st.out \o <<OutputAdded(EmptyMessage), TextChanged(content, 0)>>)
    ELSE IF st.mode \in {"Reasoning", "Messaging"}
    THEN ModeState(st.mode, st.mode_started_at,
                   st.out \o <<TextChanged(content, t - st.mode_started_at)>>)
    ELSE st

\* Delta::Text, had a text delta met in mode ToolCalling opened a Message.
ClassifyText_LeavesToolCalling(st, content, t) ==
    IF st.mode \in {"none", "Messaging"} /\ Contains(content, "<think>")
    THEN ModeState("Reasoning", t, st.out \o <<OutputAdded(EmptyReasoning)>>)
    ELSE IF st.mode = "Reasoning" /\ Contains(content, "</think>")
    THEN ModeState("Messaging", t, st.out)
    ELSE IF st.mode \in {"none", "ToolCalling"}
    THEN ModeState("Messaging", t,
                   st.out \o <<OutputAdded(EmptyMessage), TextChanged(content, 0)>>)
    ELSE IF st.mode \in {"Reasoning", "Messaging"}
    THEN ModeState(st.mode, st.mode_started_at,
                   st.out \o <<TextChanged(content, t - st.mode_started_at)>>)
    ELSE st

\* Delta::Text, had the first text of a turn been sent without an
\* OutputAdded before it.
ClassifyText_NoMessageAdded(st, content, t) ==
    IF st.mode \in {"none", "Messaging"} /\ Contains(content, "<think>")
    THEN ModeState("Reasoning", t, st.out \o <<OutputAdded(EmptyReasoning)>>)
    ELSE IF st.mode = "Reasoning" /\ Contains(content, "</think>")
    THEN ModeState("Messaging", t, st.out)
    ELSE IF st.mode = "none"
    THEN ModeState("Messaging", t, st.out \o <<TextChanged(content, 0)>>)
    ELSE IF st.mode \in {"Reasoning", "Messaging"}
    THEN ModeState(st.mode, st.mode_started_at,
                   st.out \o <<TextChanged(content, t - st.mode_started_at)>>)
    ELSE st

\* Delta::Text { content }
ClassifyText(st, content, t) ==
    IF st.mode \in {"none", "Messaging"} /\ Contains(content, "<think>")
    THEN ModeState("Reasoning", t, st.out \o <<OutputAdded(EmptyReasoning)>>)
    ELSE IF st.mode = "Reasoning" /\ Contains(content, "</think>")
    THEN ModeState("Messaging", t, st.out)
    ELSE IF st.mode = "none"
    THEN ModeState("Messaging", t,
                   st.out \o <<OutputAdded(EmptyMessage), TextChanged(content, 0)>>)
    ELSE IF st.mode \in {"Reasoning", "Messaging"}
    THEN ModeState(st.mode, st.mode_started_at,
                   st.out \o <<TextChanged(content, t - st.mode_started_at)>>)
    ELSE st

\* Delta::Call, had every tool-call delta sent an OutputAdded.
ClassifyCall_AlwaysAdds(st, delta, t) ==
    LET entered == st.mode # "ToolCalling"
        started == IF entered THEN t ELSE st.mode_started_at
        event == IF delta.call = "New"
                 THEN ToolCallAdded(delta.id, delta.name, delta.arguments)
                 ELSE ArgumentsChanged(delta.arguments, t - started)
    IN  ModeState("ToolCalling", started,
                  st.out \o <<OutputAdded(EmptyToolCalls)>> \o <<event>>)

\* Delta::Call { tool_calls }
ClassifyCall(st, delta, t) ==
    LET entered == st.mode # "ToolCalling"
        started == IF entered THEN t ELSE st.mode_started_at
        added == IF entered THEN <<OutputAdded(EmptyToolCalls)>> ELSE <<>>
        event == IF delta.call = "New"
                 THEN ToolCallAdded(delta.id, delta.name, delta.arguments)
                 ELSE ArgumentsChanged(delta.arguments, t - started)
    IN  ModeState("ToolCalling", started, st.out \o added \o <<event>>)

\* match &choice.delta
Classify(st, delta, t) ==
    IF delta.shape = "Text" THEN ClassifyText(st, delta.content, t)
    ELSE ClassifyCall(st, delta, t)

\* The body of `for line in lines`.
ProcessLine(st, line, t) ==
    IF ParseLine(line) = Skip THEN st ELSE Classify(st, ParseLine(line), t)

RECURSIVE ProcessLines(_, _, _)
ProcessLines(st, lines, t) ==
    IF lines = <<>> THEN st
    ELSE ProcessLines(ProcessLine(st, Head(lines), t), Tail(lines), t)

----------------------------------------------------------------------------
(* Reply::update                                                           *)

Last(s) == s[Len(s)]
SetLast(s, x) == [s EXCEPT ![Len(s)] = x]

\* Reply::update, had ArgumentsChanged put the fragment before the arguments.
ReplyUpdate_Prepends(outs, event) ==
    IF event.type = "OutputAdded" THEN Append(outs, event.output)
    ELSE IF event.type = "TextChanged" THEN
        IF outs = <<>> THEN outs
        ELSE IF Last(outs).kind = "Reasoning"
        THEN SetLast(outs, [Last(outs) EXCEPT !.text = @ \o event.delta,
                                              !.duration = event.duration])
        ELSE IF Last(outs).kind = "Message"
        THEN SetLast(outs, [Last(outs) EXCEPT !.text = @ \o event.delta])
        ELSE outs
    ELSE IF event.type = "ToolCallAdded" THEN
        IF outs = <<>> \/ Last(outs).kind # "ToolCalls" THEN outs
        ELSE SetLast(outs, [Last(outs) EXCEPT !.calls =
                 Append(@, [id |-> event.id, name |-> event.name,
                            arguments |-> event.arguments])])
    ELSE
        IF outs = <<>> \/ Last(outs).kind # "ToolCalls" THEN outs
        ELSE IF Last(outs).calls = <<>> THEN outs
        ELSE SetLast(outs, [Last(outs) EXCEPT !.calls =
                 SetLast(@, [Last(@) EXCEPT !.arguments = event.delta \o @])])

\* Reply::update, had a TextChanged with no text output to receive it opened a
\* Message for its text.
ReplyUpdate_OpensMessage(outs, event) ==
    IF event.type = "OutputAdded" THEN Append(outs, event.output)
    ELSE IF event.type = "TextChanged" THEN
        IF outs = <<>> THEN <<[kind |-> "Message", text |-> event.delta]>>
        ELSE IF Last(outs).kind = "Reasoning"
        THEN SetLast(outs, [Last(outs) EXCEPT !.text = @ \o event.delta,
                                              !.duration = event.duration])
        ELSE IF Last(outs).kind = "Message"
        THEN SetLast(outs, [Last(outs) EXCEPT !.text = @ \o event.delta])
        ELSE Append(outs, [kind |-> "Message", text |-> event.delta])
    ELSE IF event.type = "ToolCallAdded" THEN
        IF outs = <<>> \/ Last(outs).kind # "ToolCalls" THEN outs
        ELSE SetLast(outs, [Last(outs) EXCEPT !.calls =
                 Append(@, [id |-> event.id, name |-> event.name,
                            arguments |-> event.arguments])])
    ELSE
        IF outs = <<>> \/ Last(outs).kind # "ToolCalls" THEN outs
        ELSE IF Last(outs).calls = <<>> THEN outs
        ELSE SetLast(outs, [Last(outs) EXCEPT !.calls =
                 SetLast(@, [Last(@) EXCEPT !.arguments = @ \o event.delta])])

\* Reply::update, had ArgumentsChanged extended the first call of the output.
ReplyUpdate_ExtendsFirstCall(outs, event) ==
    IF event.type = "OutputAdded" THEN Append(outs, event.output)
    ELSE IF event.type = "TextChanged" THEN
        IF outs = <<>> THEN outs
        ELSE IF Last(outs).kind = "Reasoning"
        THEN SetLast(outs, [Last(outs) EXCEPT !.text = @ \o event.delta,
                                              !.duration = event.duration])
        ELSE IF Last(outs).kind = "Message"
        THEN SetLast(outs, [Last(outs) EXCEPT !.text = @ \o event.delta])
        ELSE outs
    ELSE IF event.type = "ToolCallAdded" THEN
        IF outs = <<>> \/ Last(outs).kind # "ToolCalls" THEN outs
        ELSE SetLast(outs, [Last(outs) EXCEPT !.calls =
                 Append(@, [id |-> event.id, name |-> event.name,
                            arguments |-> event.arguments])])
    ELSE
        IF outs = <<>> \/ Last(outs).kind # "ToolCalls" THEN outs
        ELSE IF Last(outs).calls = <<>> THEN outs
        ELSE SetLast(outs, [Last(outs) EXCEPT !.calls =
                 [@ EXCEPT ![1] = [@ EXCEPT !.arguments = @ \o event.delta]]])

ReplyUpdate(outs, event) ==
    IF event.type = "OutputAdded" THEN Append(outs, event.output)
    ELSE IF event.type = "TextChanged" THEN
        IF outs = <<>> THEN outs
        ELSE IF Last(outs).kind = "Reasoning"
        THEN SetLast(outs, [Last(outs) EXCEPT !.text = @ \o event.delta,
                                              !.duration = event.duration])
        ELSE IF Last(outs).kind = "Message"
        THEN SetLast(outs, [Last(outs) EXCEPT !.text = @ \o event.delta])
        ELSE outs
    ELSE IF event.type = "ToolCallAdded" THEN
        IF outs = <<>> \/ Last(outs).kind # "ToolCalls" THEN outs
        ELSE SetLast(outs, [Last(outs) EXCEPT !.calls =
                 Append(@, [id |-> event.id, name |-> event.name,
                            arguments |-> event.arguments])])
    ELSE \* ArgumentsChanged
        IF outs = <<>> \/ Last(outs).kind # "ToolCalls" THEN outs
        ELSE IF Last(outs).calls = <<>> THEN outs
        ELSE SetLast(outs, [Last(outs) EXCEPT !.calls =
                 SetLast(@, [Last(@) EXCEPT !.arguments = @ \o event.delta])])

RECURSIVE Fold_LastFirst(_, _)
\* reply's loop, had it applied the events it holds last one first.
Fold_LastFirst(outs, evs) ==
    IF evs = <<>> THEN outs
    ELSE Fold_LastFirst(ReplyUpdate(outs, evs[Len(evs)]), SubSeq(evs, 1, Len(evs) - 1))

RECURSIVE Fold(_, _)
\* reply's loop over the events of one chunk: reply.update(&event) for each.
Fold(outs, evs) ==
    IF evs = <<>> THEN outs ELSE Fold(ReplyUpdate(outs, Head(evs)), Tail(evs))

----------------------------------------------------------------------------
(* The response bodies the backend may send                                *)

\* data: {json}
DataLine(doc) == DataPrefix \o <<SP, doc, NL>>

RECURSIVE BodiesOf(_, _)
\* The bodies of at most n lines, each of `lines`.
BodiesOf(lines, n) ==
    IF n = 0 THEN {<<>>}
    ELSE LET shorter == BodiesOf(lines, n - 1)
         IN  shorter \cup {l \o b : l \in lines, b \in shorter}

\* The delta documents of a chat-completions stream.
DeltaDocs == {"Ta", "Tb", "O", "C", "N", "Ua", "Ub"}
DeltaBodies == BodiesOf({DataLine(doc) : doc \in DeltaDocs}, MaxDeltas)

\* Lines with and without the data prefix, with and without a space after it,
\* the terminator, a short line and the empty line.
FrameLines ==
    { DataLine("Ta"),
      <<"x", "x", "x", "x", "x", "Tb", NL>>,
      DataLine("D"),
      <<"d", "a", "t", NL>>,
      <<NL>>,
      DataPrefix \o <<"E", NL>> }

\* A body may end without a newline.
FrameBodies ==
    LET full == BodiesOf(FrameLines, MaxFrameLines)
    IN  full \cup {SubSeq(b, 1, Len(b) - 1) : b \in full \ {<<>>}}

----------------------------------------------------------------------------
(* Reason::complete and Reason::reply                                      *)

\* No boot or connect is run.
BootIdle ==
    /\ op = "none" /\ env = [local |-> FALSE, docker |-> FALSE]
    /\ bpc = "idle" /\ result = "pending"
    /\ server = "none" /\ container = FALSE
    /\ trace = <<>> /\ child = "none" /\ create = "none" /\ executor = "none"
    /\ logTask = "none" /\ progressTask = "none" /\ ioErrors = 0
    /\ healthOk = FALSE /\ attempts = 0 /\ sleeps = 0 /\ refs = 0 /\ clones = 0

CompleteStart ==
    /\ pos = 0 /\ now = 0 /\ status = "none" /\ cpc = "request"
    /\ buffer = <<>> /\ mode = "none" /\ mode_started_at = 0
    /\ events = <<>> /\ parsed = <<>> /\ spanned = FALSE
    /\ outputs = <<>> /\ forwarded = <<>> /\ rpc = "running"

\* The transport delivers one line per chunk, as a backend that flushes each
\* server-sent event does.
Init == chunking = "line" /\ body \in DeltaBodies /\ CompleteStart /\ BootIdle

\* The transport cuts the body anywhere.
InitFraming == chunking = "any" /\ body \in FrameBodies /\ CompleteStart /\ BootIdle

\* The sizes the next chunk may have.
ChunkSizes ==
    {n \in 1..(Len(body) - pos) :
        chunking = "line" =>
            /\ body[pos + n] = NL \/ pos + n = Len(body)
            /\ \A k \in 1..(n - 1) : body[pos + k] # NL}

\* The request, had error_for_status() been left out.
Request_AnyStatus ==
    /\ cpc = "request"
    /\ \E s \in {"2xx", "non2xx", "error"} :
          /\ status' = s
          /\ cpc' = IF s \in {"2xx", "non2xx"} THEN "stream" ELSE "failed"
          /\ mode_started_at' = IF s \in {"2xx", "non2xx"} THEN now ELSE mode_started_at
    /\ buffer' = <<>>
    /\ mode' = "none"
    /\ UNCHANGED <<chunking, body, pos, now, events, parsed, spanned, outputs,
                   forwarded, rpc>>
    /\ UNCHANGED bootVars

\* request.send().await?.error_for_status()?  and the declarations after it
Request ==
    /\ cpc = "request"
    /\ \E s \in {"2xx", "non2xx", "error"} :
          /\ status' = s
          /\ cpc' = IF s = "2xx" THEN "stream" ELSE "failed"
          /\ mode_started_at' = IF s = "2xx" THEN now ELSE mode_started_at
    /\ buffer' = <<>>
    /\ mode' = "none"
    /\ UNCHANGED <<chunking, body, pos, now, events, parsed, spanned, outputs,
                   forwarded, rpc>>
    /\ UNCHANGED bootVars

\* One turn of `while let Some(chunk) = response.chunk().await?`, with reply
\* folding and forwarding each event as complete sends it.
Chunk ==
    /\ cpc = "stream"
    /\ \E n \in ChunkSizes :
          LET chunk == SubSeq(body, pos + 1, pos + n)
              full == buffer \o chunk
              st == ProcessLines(ModeState(mode, mode_started_at, <<>>),
                                 CompleteLines(full), now + n)
          IN  /\ pos' = pos + n
              /\ now' = now + n
              /\ parsed' = parsed \o CompleteLines(full)
              /\ spanned' = (spanned \/ (buffer # <<>> /\ CompleteLines(full) # <<>>))
              /\ mode' = st.mode
              /\ mode_started_at' = st.mode_started_at
              /\ events' = events \o st.out
              /\ outputs' = Fold(outputs, st.out)
              /\ forwarded' = forwarded \o st.out
              /\ buffer' = LastLine(full)
    /\ UNCHANGED <<chunking, body, status, cpc, rpc>>
    /\ UNCHANGED bootVars

\* response.chunk().await? meets a transport error
ChunkError ==
    /\ cpc = "stream"
    /\ cpc' = "failed"
    /\ UNCHANGED <<chunking, body, pos, now, status, buffer, mode, mode_started_at,
                   events, parsed, spanned, outputs, forwarded, rpc>>
    /\ UNCHANGED bootVars

\* The end of the body, had the bytes left in the buffer been handled as a
\* last line.
BodyEnd_Flushes ==
    /\ cpc = "stream"
    /\ pos = Len(body)
    /\ LET rest == IF buffer = <<>> THEN <<>> ELSE <<buffer>>
           st == ProcessLines(ModeState(mode, mode_started_at, <<>>), rest, now)
       IN  /\ parsed' = parsed \o rest
           /\ mode' = st.mode
           /\ mode_started_at' = st.mode_started_at
           /\ events' = events \o st.out
           /\ outputs' = Fold(outputs, st.out)
           /\ forwarded' = forwarded \o st.out
    /\ cpc' = "done"
    /\ UNCHANGED <<chunking, body, pos, now, status, buffer, spanned, rpc>>
    /\ UNCHANGED bootVars

\* response.chunk() returns None: Ok(())
BodyEnd ==
    /\ cpc = "stream"
    /\ pos = Len(body)
    /\ cpc' = "done"
    /\ UNCHANGED <<chunking, body, pos, now, status, buffer, mode, mode_started_at,
                   events, parsed, spanned, outputs, forwarded, rpc>>
    /\ UNCHANGED bootVars

\* reply: completion.sip() returns None once complete has resolved; Ok(reply)
ReplyResolve ==
    /\ cpc \in {"done", "failed"}
    /\ rpc = "running"
    /\ rpc' = "ok"
    /\ UNCHANGED <<chunking, body, pos, now, status, cpc, buffer, mode,
                   mode_started_at, events, parsed, spanned, outputs, forwarded>>
    /\ UNCHANGED bootVars

Next == Request \/ Chunk \/ ChunkError \/ BodyEnd \/ ReplyResolve

Spec == Init /\ [][Next]_vars

SpecFraming == InitFraming /\ [][Next]_vars

----------------------------------------------------------------------------
(* Reply::update under any caller                                          *)

\* The events a caller may hand to Reply::update (it is a public method, and
\* takes any Event).
FoldEvents ==
    { OutputAdded(EmptyReasoning), OutputAdded(EmptyMessage),
      OutputAdded(EmptyToolCalls),
      TextChanged(<<"a">>, 1), TextChanged(<<"b">>, 2),
      ToolCallAdded("c1", "f", <<"{">>),
      ArgumentsChanged(<<"a">>, 1), ArgumentsChanged(<<"b">>, 2) }

RECURSIVE EventSeqs(_)
\* The sequences of at most n such events.
EventSeqs(n) ==
    IF n = 0 THEN {<<>>}
    ELSE LET shorter == EventSeqs(n - 1)
         IN  shorter \cup {Append(evs, e) : evs \in shorter, e \in FoldEvents}

\* Reply { outputs: Vec::new() }, and the events its owner is going to apply: `events` is
\* what the caller holds, `forwarded` what it has applied so far.
InitFold ==
    /\ chunking = "none" /\ body = <<>> /\ pos = 0 /\ now = 0 /\ status = "none"
    /\ cpc = "idle" /\ buffer = <<>> /\ mode = "none" /\ mode_started_at = 0
    /\ events \in EventSeqs(MaxEvents)
    /\ parsed = <<>> /\ spanned = FALSE
    /\ outputs = <<>> /\ forwarded = <<>> /\ rpc = "idle"
    /\ BootIdle

\* reply.update(&event), for the next event the caller holds
ApplyUpdate ==
    /\ rpc = "idle"
    /\ Len(forwarded) < Len(events)
    /\ LET event == events[Len(forwarded) + 1]
       IN  /\ outputs' = ReplyUpdate(outputs, event)
           /\ forwarded' = Append(forwarded, event)
    /\ UNCHANGED <<chunking, body, pos, now, status, cpc, buffer, mode,
                   mode_started_at, events, parsed, spanned, rpc>>
    /\ UNCHANGED bootVars

NextFold == ApplyUpdate

SpecFold == InitFold /\ [][NextFold]_vars

----------------------------------------------------------------------------
(* Reason::boot, Reason::connect and the Server handle                     *)

Progressed(stage, percent) == [type |-> "Progressed", stage |-> stage, percent |-> percent]
Logged(log) == [type |-> "Logged", log |-> log]
Command(program, arg) == [type |-> "Command", program |-> program, arg |-> arg]
Killed(program) == [type |-> "Killed", program |-> program]

Saturate(n) == IF n < MaxAttempts THEN n + 1 ELSE MaxAttempts

\* The lines the log tasks have re-emitted.
TaskLogs == SelectSeq(trace, LAMBDA e : e.type = "Logged" /\ e.log \in {"stderr of create", "log"})

\* impl Drop for Server
DropServer(variant) ==
    IF variant = "Container" THEN <<Command("docker", "stop")>> ELSE <<>>

\* .kill_on_drop(true) of the llama-server child
KillChild(c) == IF c = "running" THEN <<Killed("llama-server")>> ELSE <<>>

\* .kill_on_drop(true) of the `docker create` child
KillCreate(c) == IF c = "running" THEN <<Killed("docker create")>> ELSE <<>>

\* What dropping the locals of boot does: the `docker` child, then `server`
\* (Drop for Server, then the child the Process variant holds).
DropLocals(variant, c, cr) == KillCreate(cr) \o DropServer(variant) \o KillChild(c)

\* boot leaves by `return Err(..)` or `?`: its locals are dropped.
Fail(error, sent) ==
    /\ result' = error
    /\ bpc' = "resolved"
    /\ trace' = trace \o sent \o DropLocals(server, child, create)
    /\ child' = IF child = "running" THEN "killed" ELSE child
    /\ create' = IF create = "running" THEN "killed" ELSE create

CompleteIdle ==
    /\ chunking = "line" /\ body = <<>> /\ pos = 0 /\ now = 0 /\ status = "none"
    /\ cpc = "idle" /\ buffer = <<>> /\ mode = "none" /\ mode_started_at = 0
    /\ events = <<>> /\ parsed = <<>> /\ spanned = FALSE
    /\ outputs = <<>> /\ forwarded = <<>> /\ rpc = "idle"

InitBoot ==
    /\ op \in {"boot", "connect"}
    /\ env \in [local : BOOLEAN, docker : BOOLEAN]
    /\ op = "connect" => env = [local |-> FALSE, docker |-> FALSE]
    /\ bpc = IF op = "boot" THEN "start" ELSE "url"
    /\ result = "pending" /\ server = "none" /\ container = FALSE
    /\ trace = <<>> /\ child = "none" /\ create = "none" /\ executor = "none"
    /\ logTask = "none" /\ progressTask = "none" /\ ioErrors = 0
    /\ healthOk = FALSE /\ attempts = 0 /\ sleeps = 0 /\ refs = 0 /\ clones = 0
    /\ CompleteIdle

At(point) == result = "pending" /\ bpc = point

\* sender.progress("Detecting executor...", 0).await
BootStart ==
    /\ At("start")
    /\ trace' = Append(trace, Progressed("Detecting executor...", 0))
    /\ bpc' = "probe_local"
    /\ UNCHANGED <<op, env, result, server, container, child, create, logTask,
                   progressTask, ioErrors, healthOk, attempts, sleeps, refs, clones>>
    /\ UNCHANGED <<executor, completeVars>>

\* A variant of ProbeLocal: docker is tried first when it is installed.
ProbeLocal_DockerFirst ==
    /\ At("probe_local")
    /\ trace' = Append(trace, Command("llama-server", "--version"))
    /\ bpc' = IF env.local /\ ~env.docker THEN "launch_local" ELSE "probe_docker"
    /\ UNCHANGED <<op, env, result, server, container, child, create, logTask,
                   progressTask, ioErrors, healthOk, attempts, sleeps, refs, clones>>
    /\ UNCHANGED <<executor, completeVars>>

\* process::Command::new("llama-server").arg("--version").output().await
ProbeLocal ==
    /\ At("probe_local")
    /\ trace' = Append(trace, Command("llama-server", "--version"))
    /\ bpc' = IF env.local THEN "launch_local" ELSE "probe_docker"
    /\ UNCHANGED <<op, env, result, server, container, child, create, logTask,
                   progressTask, ioErrors, healthOk, attempts, sleeps, refs, clones>>
    /\ UNCHANGED <<executor, completeVars>>

\* The first branch: the version lines, Server::launch_with_executable, and
\* the log task spawned on its output.
LaunchLocal ==
    /\ At("launch_local")
    /\ \E outcome \in {"launched", "bad version output", "spawn failed"} :
          LET found == <<Logged("Local llama-server binary found!")>>
              launch == <<Logged("version"), Progressed("Launching assistant...", 99),
                          Logged("Launching with local llama-server..."),
                          Command("llama-server", "--model")>>
          IN  CASE outcome = "bad version output" ->
                     /\ Fail("IOFailed", found)
                     /\ ioErrors' = ioErrors + 1
                     /\ UNCHANGED <<server, logTask, executor>>
                [] outcome = "spawn failed" ->
                     /\ Fail("IOFailed", found \o launch)
                     /\ ioErrors' = ioErrors + 1
                     /\ UNCHANGED <<server, logTask, executor>>
                [] OTHER ->
                     /\ trace' = trace \o found \o launch
                     /\ child' = "running"
                     /\ server' = "Process"
                     /\ logTask' = "running"
                     /\ executor' = "up"
                     /\ bpc' = "poll_sleep"
                     /\ UNCHANGED <<result, create, ioErrors>>
    /\ UNCHANGED <<op, env, container, progressTask, healthOk, attempts, sleeps, refs, clones>>
    /\ UNCHANGED completeVars

\* A variant of ProbeDocker: the container branch is entered whatever the probe says.
ProbeDocker_Unchecked ==
    /\ At("probe_docker")
    /\ trace' = Append(trace, Command("docker", "version"))
    /\ bpc' = "create"
    /\ UNCHANGED <<result, child, create>>
    /\ UNCHANGED <<op, env, server, container, logTask, progressTask, ioErrors,
                   healthOk, attempts, sleeps, refs, clones>>
    /\ UNCHANGED <<executor, completeVars>>

\* process::Command::new("docker").arg("version").output().await, and the
\* last branch: return Err(Error::NoExecutorAvailable)
ProbeDocker ==
    /\ At("probe_docker")
    /\ IF env.docker
       THEN /\ trace' = Append(trace, Command("docker", "version"))
            /\ bpc' = "create"
            /\ UNCHANGED <<result, child, create>>
       ELSE Fail("NoExecutorAvailable", <<Command("docker", "version")>>)
    /\ UNCHANGED <<op, env, server, container, logTask, progressTask, ioErrors,
                   healthOk, attempts, sleeps, refs, clones>>
    /\ UNCHANGED <<executor, completeVars>>

\* The second branch, had `docker create` been spawned before its progress
\* notification.
CreateContainer_RunsFirst ==
    /\ At("create")
    /\ \E spawned \in BOOLEAN :
          LET sent == <<Logged("Launching with Docker..."),
                        Command("docker", "create"),
                        Progressed("Preparing container...", 0)>>
          IN  IF spawned
              THEN /\ trace' = trace \o sent
                   /\ create' = "running"
                   /\ progressTask' = "running"
                   /\ bpc' = "read_id"
                   /\ UNCHANGED <<result, child, ioErrors>>
              ELSE /\ Fail("IOFailed", sent)
                   /\ ioErrors' = ioErrors + 1
                   /\ UNCHANGED progressTask
    /\ UNCHANGED <<op, env, server, container, logTask, healthOk, attempts, sleeps, refs, clones>>
    /\ UNCHANGED <<executor, completeVars>>

\* The second branch up to task::spawn(notify_progress): `docker create` is spawned.
CreateContainer ==
    /\ At("create")
    /\ \E spawned \in BOOLEAN :
          LET sent == <<Logged("Launching with Docker..."),
                        Progressed("Preparing container...", 0),
                        Command("docker", "create")>>
          IN  IF spawned
              THEN /\ trace' = trace \o sent
                   /\ create' = "running"
                   /\ progressTask' = "running"
                   /\ bpc' = "read_id"
                   /\ UNCHANGED <<result, child, ioErrors>>
              ELSE /\ Fail("IOFailed", sent)
                   /\ ioErrors' = ioErrors + 1
                   /\ UNCHANGED progressTask
    /\ UNCHANGED <<op, env, server, container, logTask, healthOk, attempts, sleeps, refs, clones>>
    /\ UNCHANGED <<executor, completeVars>>

\* let container = lines.next_line().await?.ok_or_else(..)?
ReadId ==
    /\ At("read_id")
    /\ \E line \in {"id", "none", "error"} :
          CASE line = "id" ->
                 /\ container' = TRUE
                 /\ bpc' = "wait_create"
                 /\ UNCHANGED <<result, trace, child, create, ioErrors>>
            [] line = "none" ->
                 /\ Fail("DockerFailed", <<>>)
                 /\ UNCHANGED <<container, ioErrors>>
            [] OTHER ->
                 /\ Fail("IOFailed", <<>>)
                 /\ ioErrors' = ioErrors + 1
                 /\ UNCHANGED container
    /\ UNCHANGED <<op, env, server, logTask, progressTask, healthOk, attempts, sleeps, refs, clones>>
    /\ UNCHANGED <<executor, completeVars>>

\* The wait for `docker create`, had its exit status not been looked at.
WaitCreate_IgnoresStatus ==
    /\ At("wait_create")
    /\ \E exit \in {"success", "failure", "error"} :
          CASE exit = "success" ->
                 /\ create' = "exited"
                 /\ bpc' = "launching"
                 /\ UNCHANGED <<result, trace, child, ioErrors>>
            [] exit = "failure" ->
                 /\ create' = "failed"
                 /\ bpc' = "launching"
                 /\ UNCHANGED <<result, trace, child, ioErrors>>
            [] OTHER ->
                 /\ Fail("IOFailed", <<>>)
                 /\ ioErrors' = ioErrors + 1
    /\ UNCHANGED <<op, env, server, container, logTask, progressTask, healthOk,
                   attempts, sleeps, refs, clones>>
    /\ UNCHANGED <<executor, completeVars>>

\* if !docker.wait().await?.success() { return Err(..) }
WaitCreate ==
    /\ At("wait_create")
    /\ \E exit \in {"success", "failure", "error"} :
          CASE exit = "success" ->
                 /\ create' = "exited"
                 /\ bpc' = "launching"
                 /\ UNCHANGED <<result, trace, child, ioErrors>>
            [] exit = "failure" ->
                 /\ result' = "DockerFailed"
                 /\ bpc' = "resolved"
                 /\ create' = "failed"
                 /\ UNCHANGED <<trace, child, ioErrors>>
            [] OTHER ->
                 /\ Fail("IOFailed", <<>>)
                 /\ ioErrors' = ioErrors + 1
    /\ UNCHANGED <<op, env, server, container, logTask, progressTask, healthOk,
                   attempts, sleeps, refs, clones>>
    /\ UNCHANGED <<executor, completeVars>>

\* sender.progress("Launching assistant...", 99).await; let server = Server::Container { .. }
Launching ==
    /\ At("launching")
    /\ trace' = Append(trace, Progressed("Launching assistant...", 99))
    /\ server' = "Container"
    /\ bpc' = "docker_start"
    /\ UNCHANGED <<op, env, result, container, child, create, logTask, progressTask,
                   ioErrors, healthOk, attempts, sleeps, refs, clones>>
    /\ UNCHANGED <<executor, completeVars>>

\* `docker start` .output().await?, `docker logs -f` .spawn()?, and the log
\* task spawned on its output.
StartContainer ==
    /\ At("docker_start")
    /\ \E outcome \in {"started", "start failed", "logs failed"} :
          CASE outcome = "start failed" ->
                 /\ Fail("IOFailed", <<Command("docker", "start")>>)
                 /\ ioErrors' = ioErrors + 1
                 /\ UNCHANGED <<logTask, executor>>
            [] outcome = "logs failed" ->
                 /\ Fail("IOFailed", <<Command("docker", "start"), Command("docker", "logs")>>)
                 /\ ioErrors' = ioErrors + 1
                 /\ UNCHANGED <<logTask, executor>>
            [] OTHER ->
                 /\ trace' = trace \o <<Command("docker", "start"), Command("docker", "logs")>>
                 /\ logTask' = "running"
                 /\ executor' = "up"
                 /\ bpc' = "poll_sleep"
                 /\ UNCHANGED <<result, child, create, ioErrors>>
    /\ UNCHANGED <<op, env, server, container, progressTask, healthOk, attempts, sleeps, refs, clones>>
    /\ UNCHANGED completeVars

\* check_health: time::sleep(Duration::from_secs(1)).await
PollSleep ==
    /\ At("poll_sleep")
    /\ sleeps' = Saturate(sleeps)
    /\ bpc' = "poll_request"
    /\ UNCHANGED <<op, env, result, server, container, trace, child, create, logTask,
                   progressTask, ioErrors, healthOk, attempts, refs, clones>>
    /\ UNCHANGED <<executor, completeVars>>

\* check_health, had a request that fails made it return false.
CheckHealth_GivesUp(response) ==
    IF response = "2xx" THEN "true" ELSE IF response = "error" THEN "false" ELSE "again"

\* check_health, one turn after its sleep: what it does with the answer of
\* reqwest::get("{address}/health"): return true, or go round the loop.
CheckHealth(response) == IF response = "2xx" THEN "true" ELSE "again"

\* log_handle.abort(), had it been left out.
Abort_Forgotten(task) == task

\* log_handle.abort()
Abort(task) == IF task = "running" THEN "aborted" ELSE task

\* The readiness poll, had it a bound on its retries: the request that
\* reaches the bound without a 2xx answer ends it.
PollRequest_TimesOut ==
    /\ At("poll_request")
    /\ attempts' = Saturate(attempts)
    /\ \E response \in {"2xx", "non2xx", "error"} :
          /\ healthOk' = (response = "2xx")
          /\ CASE CheckHealth(response) = "true" ->
                    /\ logTask' = Abort(logTask)
                    /\ result' = "Ok"
                    /\ refs' = 1
                    /\ bpc' = "resolved"
                    /\ UNCHANGED <<trace, child, create>>
               [] attempts' = MaxAttempts ->
                    /\ Fail("ExecutorFailed", <<>>)
                    /\ UNCHANGED <<logTask, refs>>
               [] OTHER ->
                    /\ bpc' = "poll_sleep"
                    /\ UNCHANGED <<logTask, result, refs, trace, child, create>>
    /\ UNCHANGED <<op, env, server, container, progressTask, ioErrors, sleeps, clones>>
    /\ UNCHANGED <<executor, completeVars>>

\* check_health: reqwest::get("{address}/health"); `if check_health.await`:
\* log_handle.abort() and Ok(Self { .. }); after it,
\* Err(Error::ExecutorFailed(..)).
PollRequest ==
    /\ At("poll_request")
    /\ attempts' = Saturate(attempts)
    /\ \E response \in {"2xx", "non2xx", "error"} :
          /\ healthOk' = (response = "2xx")
          /\ CASE CheckHealth(response) = "true" ->
                    /\ logTask' = Abort(logTask)
                    /\ result' = "Ok"
                    /\ refs' = 1
                    /\ bpc' = "resolved"
                    /\ UNCHANGED <<trace, child, create>>
               [] CheckHealth(response) = "false" ->
                    /\ Fail("ExecutorFailed", <<>>)
                    /\ UNCHANGED <<logTask, refs>>
               [] OTHER ->
                    /\ bpc' = "poll_sleep"
                    /\ UNCHANGED <<logTask, result, refs, trace, child, create>>
    /\ UNCHANGED <<op, env, server, container, progressTask, ioErrors, sleeps, clones>>
    /\ UNCHANGED <<executor, completeVars>>

\* The llama-server launched, process or container, exits on its own while
\* boot waits for it to be ready.
ExecutorExits ==
    /\ result = "pending"
    /\ executor = "up"
    /\ executor' = "exited"
    /\ UNCHANGED <<op, env, bpc, result, server, container, trace, child, create,
                   logTask, progressTask, ioErrors, healthOk, attempts, sleeps, refs,
                   clones>>
    /\ UNCHANGED completeVars

\* log_output: one turn of `while let Some(line) = lines.next().await`
LogTaskStep ==
    /\ result = "pending"
    /\ logTask = "running"
    /\ \E line \in {"line", "error", "end"} :
          CASE line = "line" ->
                 /\ Len(TaskLogs) < MaxLogs
                 /\ trace' = Append(trace, Logged("log"))
                 /\ UNCHANGED <<logTask, ioErrors>>
            [] line = "error" ->
                 /\ ioErrors < MaxLogs
                 /\ ioErrors' = ioErrors + 1
                 /\ UNCHANGED <<logTask, trace>>
            [] OTHER ->
                 /\ logTask' = "ended"
                 /\ UNCHANGED <<trace, ioErrors>>
    /\ UNCHANGED <<op, env, bpc, result, server, container, child, create, progressTask,
                   healthOk, attempts, sleeps, refs, clones>>
    /\ UNCHANGED <<executor, completeVars>>

\* notify_progress: one turn of `while let Ok(Some(log)) = lines.next_line().await`
ProgressTaskStep ==
    /\ result = "pending"
    /\ progressTask = "running"
    /\ \E line \in {"line", "error", "end"} :
          CASE line = "line" ->
                 /\ Len(TaskLogs) < MaxLogs
                 /\ trace' = Append(trace, Logged("stderr of create"))
                 /\ UNCHANGED <<progressTask, ioErrors>>
            [] line = "error" ->
                 /\ ioErrors < MaxLogs
                 /\ ioErrors' = ioErrors + 1
                 /\ progressTask' = "ended"
                 /\ UNCHANGED trace
            [] OTHER ->
                 /\ progressTask' = "ended"
                 /\ UNCHANGED <<trace, ioErrors>>
    /\ UNCHANGED <<op, env, bpc, result, server, container, child, create, logTask,
                   healthOk, attempts, sleeps, refs, clones>>
    /\ UNCHANGED <<executor, completeVars>>

\* The consumer drops the boot operation at the await it is suspended at.
DropBoot ==
    /\ op = "boot"
    /\ result = "pending"
    /\ result' = "dropped"
    /\ trace' = trace \o DropLocals(server, child, create)
    /\ child' = IF child = "running" THEN "killed" ELSE child
    /\ create' = IF create = "running" THEN "killed" ELSE create
    /\ UNCHANGED <<op, env, bpc, server, container, logTask, progressTask, ioErrors,
                   healthOk, attempts, sleeps, refs, clones>>
    /\ UNCHANGED <<executor, completeVars>>

\* connect: let host = host.into_url()?
ConnectUrl ==
    /\ op = "connect"
    /\ At("url")
    /\ \E wellFormed \in BOOLEAN :
          IF wellFormed
          THEN bpc' = "request" /\ UNCHANGED result
          ELSE bpc' = "resolved" /\ result' = "RequestFailed"
    /\ UNCHANGED <<op, env, server, container, trace, child, create, logTask, progressTask,
                   ioErrors, healthOk, attempts, sleeps, refs, clones>>
    /\ UNCHANGED <<executor, completeVars>>

\* connect's request, had a refused request been retried at once.
ConnectRequest_NoSleep ==
    /\ At("request")
    /\ attempts' = Saturate(attempts)
    /\ \E response \in {"2xx", "non2xx", "error", "timeout"} :
          /\ healthOk' = (response = "2xx")
          /\ CASE response = "2xx" ->
                    /\ result' = "Ok"
                    /\ server' = "Remote"
                    /\ refs' = 1
                    /\ bpc' = "resolved"
               [] response = "non2xx" ->
                    /\ bpc' = "request"
                    /\ UNCHANGED <<result, server, refs>>
               [] OTHER ->
                    /\ result' = "RequestFailed"
                    /\ bpc' = "resolved"
                    /\ UNCHANGED <<server, refs>>
    /\ UNCHANGED <<op, env, container, trace, child, create, logTask, progressTask,
                   ioErrors, sleeps, clones>>
    /\ UNCHANGED <<executor, completeVars>>

\* connect: client.get(..).timeout(5 s).send().await?.error_for_status().is_ok()
ConnectRequest ==
    /\ At("request")
    /\ attempts' = Saturate(attempts)
    /\ \E response \in {"2xx", "non2xx", "error", "timeout"} :
          /\ healthOk' = (response = "2xx")
          /\ CASE response = "2xx" ->
                    /\ result' = "Ok"
                    /\ server' = "Remote"
                    /\ refs' = 1
                    /\ bpc' = "resolved"
               [] response = "non2xx" ->
                    /\ bpc' = "sleep"
                    /\ UNCHANGED <<result, server, refs>>
               [] OTHER ->
                    /\ result' = "RequestFailed"
                    /\ bpc' = "resolved"
                    /\ UNCHANGED <<server, refs>>
    /\ UNCHANGED <<op, env, container, trace, child, create, logTask, progressTask,
                   ioErrors, sleeps, clones>>
    /\ UNCHANGED <<executor, completeVars>>

\* connect: time::sleep(Duration::from_secs(1)).await
ConnectSleep ==
    /\ At("sleep")
    /\ sleeps' = Saturate(sleeps)
    /\ bpc' = "request"
    /\ UNCHANGED <<op, env, result, server, container, trace, child, create, logTask,
                   progressTask, ioErrors, healthOk, attempts, refs, clones>>
    /\ UNCHANGED <<executor, completeVars>>

\* #[derive(Clone)] struct Reason: Arc::clone of the server
CloneHandle ==
    /\ result = "Ok"
    /\ refs >= 1
    /\ clones < MaxClones
    /\ refs' = refs + 1
    /\ clones' = clones + 1
    /\ UNCHANGED <<op, env, bpc, result, server, container, trace, child, create, logTask,
                   progressTask, ioErrors, healthOk, attempts, sleeps>>
    /\ UNCHANGED <<executor, completeVars>>

\* A variant of DropHandle: every Reason dropped runs the Server's drop.
DropHandle_EveryDrop ==
    /\ result = "Ok"
    /\ refs >= 1
    /\ refs' = refs - 1
    /\ trace' = trace \o DropServer(server) \o KillChild(child)
    /\ child' = IF child = "running" THEN "killed" ELSE child
    /\ UNCHANGED <<op, env, bpc, result, server, container, create, logTask,
                   progressTask, ioErrors, healthOk, attempts, sleeps, clones>>
    /\ UNCHANGED <<executor, completeVars>>

\* A Reason is dropped; the last one drops the Server.
DropHandle ==
    /\ result = "Ok"
    /\ refs >= 1
    /\ refs' = refs - 1
    /\ IF refs = 1
       THEN /\ trace' = trace \o DropServer(server) \o KillChild(child)
            /\ child' = IF child = "running" THEN "killed" ELSE child
       ELSE UNCHANGED <<trace, child>>
    /\ UNCHANGED <<op, env, bpc, result, server, container, create, logTask,
                   progressTask, ioErrors, healthOk, attempts, sleeps, clones>>
    /\ UNCHANGED <<executor, completeVars>>

NextBoot ==
    \/ BootStart \/ ProbeLocal \/ LaunchLocal \/ ProbeDocker \/ CreateContainer
    \/ ReadId \/ WaitCreate \/ Launching \/ StartContainer
    \/ PollSleep \/ PollRequest \/ ExecutorExits
    \/ LogTaskStep \/ ProgressTaskStep \/ DropBoot
    \/ ConnectUrl \/ ConnectRequest \/ ConnectSleep
    \/ CloneHandle \/ DropHandle

SpecBoot == InitBoot /\ [][NextBoot]_vars

\* The runtime drives boot while its consumer holds it: each sleep of the
\* readiness poll ends, and each health request is answered or fails. Nothing
\* makes the consumer drop the operation, the executor print or exit, or the
\* answer be a 2xx.
SpecBootLive ==
    InitBoot /\ [][NextBoot]_vars /\ WF_vars(PollSleep) /\ WF_vars(PollRequest)

----------------------------------------------------------------------------
(* Properties of Reason::complete and Reason::reply                        *)

\* An event without its elapsed time.
NoElapsed(e) ==
    IF e.type \in {"TextChanged", "ArgumentsChanged"} THEN [e EXCEPT !.duration = 0]
    ELSE e

NoElapsedAll(evs) == [i \in 1..Len(evs) |-> NoElapsed(evs[i])]

\* The classifier before the first line.
ModeStart == ModeState("none", 0, <<>>)

Kinds(outs) == [i \in 1..Len(outs) |-> outs[i].kind]

ThinkBody == DataLine("O") \o DataLine("Ta") \o DataLine("C") \o DataLine("Tb")

\* C1: once the body "<think>", "a", "</think>", "b" is exhausted, complete has
\* sent exactly OutputAdded(Reasoning), TextChanged("a"), OutputAdded(Message),
\* TextChanged("b"), and reply has folded them into two outputs, a Reasoning
\* and a Message.
C1_CloseMarkerOpensMessage ==
    (body = ThinkBody /\ cpc = "done") =>
        /\ NoElapsedAll(events) =
              << OutputAdded(EmptyReasoning), TextChanged(<<"a">>, 0),
                 OutputAdded(EmptyMessage), TextChanged(<<"b">>, 0) >>
        /\ Kinds(outputs) = <<"Reasoning", "Message">>

\* C2: however the body is cut into chunks, the lines parsed so far and the
\* events sent so far (elapsed times aside) are those of handing the bytes
\* received so far to complete as one single chunk, and the retained buffer is
\* the same: no complete line is lost, duplicated or split at a chunk boundary.
C2_ChunkingIndependent ==
    LET received == SubSeq(body, 1, pos)
        once == ProcessLines(ModeStart, CompleteLines(received), 0)
    IN  /\ parsed = CompleteLines(received)
        /\ NoElapsedAll(events) = NoElapsedAll(once.out)
        /\ mode = once.mode
        /\ buffer = LastLine(received)

\* C2 witness: a body of two lines was received to its end, a line of it
\* arrived in more than one chunk, and events were sent.
C2_Witness ==
    /\ cpc = "done" /\ spanned /\ Len(parsed) = 2 /\ events # <<>>

\* C3: when complete has failed, reply does not resolve to Ok.
C3_ReplyFailsWhenCompleteFails == (cpc = "failed" /\ rpc # "running") => rpc = "err"

HasDataPrefix(line) == Len(line) >= PREFIX /\ SubSeq(line, 1, PREFIX) = DataPrefix

\* C9: the lines that do not begin with "data:" are ignored: the events sent
\* and the mode are those of the lines that do begin with it.
C9_UnprefixedLinesIgnored ==
    LET prefixed == ProcessLines(ModeStart, SelectSeq(parsed, HasDataPrefix), 0)
    IN  /\ NoElapsedAll(events) = NoElapsedAll(prefixed.out)
        /\ mode = prefixed.mode

RECURSIVE Fragments(_, _)
\* The fragments of the events from the i-th on, last one last.
Fragments(evs, i) ==
    IF i > Len(evs) THEN <<>>
    ELSE Fragments(SubSeq(evs, 1, Len(evs) - 1), i) \o evs[Len(evs)].delta

\* OutputAdded(ToolCalls), ToolCallAdded, then ArgumentsChanged events only.
IsCallStream(evs) ==
    /\ Len(evs) >= 2
    /\ evs[1] = OutputAdded(EmptyToolCalls)
    /\ evs[2].type = "ToolCallAdded"
    /\ \A i \in 3..Len(evs) : evs[i].type = "ArgumentsChanged"

\* C11: after OutputAdded(ToolCalls), ToolCallAdded{id, name, a0} and N
\* ArgumentsChanged events were folded, the Reply holds one ToolCalls output
\* with one call of that id and name, whose arguments are a0 followed by the N
\* fragments in event order.
C11_ArgumentsConcatenate ==
    IsCallStream(forwarded) =>
        outputs = << [kind |-> "ToolCalls",
                      calls |-> << [id |-> forwarded[2].id,
                                    name |-> forwarded[2].name,
                                    arguments |-> forwarded[2].arguments
                                                  \o Fragments(forwarded, 3)] >>] >>

\* C11 witness: a call and two different fragments were folded.
C11_Witness ==
    /\ IsCallStream(forwarded)
    /\ Len(forwarded) >= 4
    /\ forwarded[3].delta # forwarded[4].delta

\* The event has no output of its kind to go to at the end of outs.
Stray(outs, event) ==
    \/ /\ event.type = "TextChanged"
       /\ (outs = <<>> \/ Last(outs).kind = "ToolCalls")
    \/ /\ event.type \in {"ToolCallAdded", "ArgumentsChanged"}
       /\ (outs = <<>> \/ Last(outs).kind \in {"Reasoning", "Message"})
    \/ /\ event.type = "ArgumentsChanged"
       /\ outs # <<>>
       /\ Last(outs).kind = "ToolCalls"
       /\ Last(outs).calls = <<>>

\* C12: an update with an event that has no output of its kind to go to (a
\* TextChanged with no output or after a ToolCalls; a ToolCallAdded or an
\* ArgumentsChanged with no output or after a Reasoning or a Message; an
\* ArgumentsChanged on a ToolCalls without a call) leaves the Reply as it was.
C12_StrayEventIgnored ==
    [][(forwarded' # forwarded /\ Stray(outputs, forwarded'[Len(forwarded')]))
          => outputs' = outputs]_vars

\* C12 witness: the last event folded was a TextChanged, onto a Reply whose
\* last output is a ToolCalls.
C12_Witness ==
    /\ forwarded # <<>>
    /\ Last(forwarded).type = "TextChanged"
    /\ outputs # <<>>
    /\ Last(outputs).kind = "ToolCalls"

RECURSIVE ReplyOf(_)
\* The Reply made of the events evs: that of all but the last, updated with the last.
ReplyOf(evs) ==
    IF evs = <<>> THEN <<>>
    ELSE ReplyUpdate(ReplyOf(SubSeq(evs, 1, Len(evs) - 1)), evs[Len(evs)])

\* C13: the Reply that reply resolves to is the empty Reply updated with each
\* event reply forwarded, in the order forwarded; and however the events that
\* complete sent are split in two, folding the first part and then the second
\* onto the result gives the Reply of the whole sequence.
C13_ReplyIsLeftFold ==
    /\ rpc = "ok" => outputs = ReplyOf(forwarded)
    /\ \A k \in 0..Len(events) :
          Fold(Fold(<<>>, SubSeq(events, 1, k)), SubSeq(events, k + 1, Len(events)))
             = ReplyOf(events)

\* C13 witness: reply resolved after forwarding events of a body that opened
\* two outputs, text going to the first and a call to the second.
C13_Witness ==
    /\ rpc = "ok"
    /\ Len(outputs) >= 2
    /\ outputs[1].kind \in {"Reasoning", "Message"} /\ outputs[1].text # <<>>
    /\ outputs[2].kind = "ToolCalls" /\ outputs[2].calls # <<>>

\* The kind of output a mode writes to.
KindOfMode(m) ==
    CASE m = "Reasoning" -> "Reasoning"
      [] m = "Messaging" -> "Message"
      [] m = "ToolCalling" -> "ToolCalls"
      [] OTHER -> "none"

\* C14: each OutputAdded that complete sends for a delta is sent by a delta
\* that changes the mode to a different one, and the kind of its output is that
\* of the new mode; a delta that leaves the mode as it was sends no OutputAdded.
C14_AddedOnlyOnModeChange ==
    [][\A i \in (Len(events) + 1)..Len(events') :
          events'[i].type = "OutputAdded" =>
              /\ mode' # mode
              /\ events'[i].output.kind = KindOfMode(mode')]_vars

\* C14 witness: two outputs were added, and two text deltas in a row were sent
\* as TextChanged with nothing added between them.
C14_Witness ==
    /\ \E i, j \in 1..Len(events) :
          i < j /\ events[i].type = "OutputAdded" /\ events[j].type = "OutputAdded"
    /\ \E i \in 1..(Len(events) - 1) :
          events[i].type = "TextChanged" /\ events[i + 1].type = "TextChanged"

\* C20: each delta that changes the mode sets mode_started_at to the time it
\* is handled, each other delta leaves it; and the elapsed value of each
\* TextChanged or ArgumentsChanged sent is the time since the mode last changed.
C20_TimerFollowsMode ==
    [][/\ mode' # mode => mode_started_at' = now'
       /\ mode' = mode => mode_started_at' = mode_started_at
       /\ \A i \in (Len(events) + 1)..Len(events') :
             events'[i].type \in {"TextChanged", "ArgumentsChanged"} =>
                 events'[i].duration =
                     now' - (IF mode' # mode THEN now' ELSE mode_started_at)]_vars

\* C20 witness: the mode changed after the stream began, and the last event
\* carries a time that is neither zero nor the time since the stream began.
C20_Witness ==
    /\ events # <<>>
    /\ Last(events).type \in {"TextChanged", "ArgumentsChanged"}
    /\ mode_started_at > 0
    /\ Last(events).duration > 0
    /\ Last(events).duration = now - mode_started_at

\* The step handed one more line to the parser.
ParsedOne == Len(parsed') = Len(parsed) + 1

\* The delta of that line, or Skip.
StepDelta == ParseLine(parsed'[Len(parsed')])

\* The events the step sent.
NewEvents == SubSeq(events', Len(events) + 1, Len(events'))

\* C21: a step that parses a tool-call delta leaves the mode at ToolCalling
\* and sends one event for it, ToolCallAdded(id, name, arguments) for a new
\* call and ArgumentsChanged(fragment) for a continuation, with
\* OutputAdded(ToolCalls(empty)) just before it when the mode was not
\* ToolCalling before the delta and nothing before it when it was.
C21_OneEventPerCallDelta ==
    [][(ParsedOne /\ StepDelta.shape = "Call") =>
          LET d == StepDelta
              event == IF d.call = "New"
                       THEN ToolCallAdded(d.id, d.name, d.arguments)
                       ELSE ArgumentsChanged(d.arguments, 0)
              want == IF mode # "ToolCalling"
                      THEN <<OutputAdded(EmptyToolCalls), event>>
                      ELSE <<event>>
          IN  /\ mode' = "ToolCalling"
              /\ NoElapsedAll(NewEvents) = want]_vars

\* C21 witness: after a message, a new call and a continuation of it were sent.
C21_Witness ==
    /\ Len(events) >= 5
    /\ events[1] = OutputAdded(EmptyMessage)
    /\ events[Len(events) - 2] = OutputAdded(EmptyToolCalls)
    /\ events[Len(events) - 1].type = "ToolCallAdded"
    /\ events[Len(events)].type = "ArgumentsChanged"

\* C22: a step that parses a text delta in mode none, Reasoning or Messaging
\* follows the first of these rules that applies: (1) mode none or Messaging
\* and the text contains "<think>": mode Reasoning, OutputAdded(Reasoning(empty))
\* alone; (2) mode Reasoning and the text contains "</think>": mode Messaging,
\* no event; (3) mode none: mode Messaging, OutputAdded(Message(empty)) then
\* TextChanged(text); (4) otherwise the mode stays and TextChanged(text) alone
\* is sent.
C22_TextRules ==
    [][(ParsedOne /\ StepDelta.shape = "Text"
          /\ mode \in {"none", "Reasoning", "Messaging"}) =>
          LET text == StepDelta.content
          IN  IF mode \in {"none", "Messaging"} /\ Contains(text, "<think>")
              THEN mode' = "Reasoning" /\ NewEvents = <<OutputAdded(EmptyReasoning)>>
              ELSE IF mode = "Reasoning" /\ Contains(text, "</think>")
              THEN mode' = "Messaging" /\ NewEvents = <<>>
              ELSE IF mode = "none"
              THEN /\ mode' = "Messaging"
                   /\ NoElapsedAll(NewEvents)
                         = <<OutputAdded(EmptyMessage), TextChanged(text, 0)>>
              ELSE /\ mode' = mode
                   /\ NoElapsedAll(NewEvents) = <<TextChanged(text, 0)>>]_vars

\* C22 witness: a message was opened by plain text (3), extended by an unused
\* close marker (4), left for a reasoning by an open marker (1), which a close
\* marker ended (2).
C22_Witness ==
    /\ body = DataLine("Ta") \o DataLine("C") \o DataLine("O") \o DataLine("C")
    /\ pos = Len(body)
    /\ mode = "Messaging"

\* C25: once the mode is ToolCalling every step leaves it there, and a step
\* that parses a text delta in that mode, marker or not, sends no event and
\* leaves the Reply as it was.
C25_ToolCallingAbsorbs ==
    [][mode = "ToolCalling" =>
          /\ mode' = "ToolCalling"
          /\ (ParsedOne /\ StepDelta.shape = "Text") =>
                (events' = events /\ outputs' = outputs /\ forwarded' = forwarded)]_vars

\* C25 witness: after a tool-call delta, plain text and an open marker were
\* received, and the mode is ToolCalling still.
C25_Witness ==
    /\ Len(parsed) >= 3
    /\ ParseLine(parsed[Len(parsed) - 2]).shape = "Call"
    /\ ParseLine(parsed[Len(parsed) - 1]) = Text(<<"a">>)
    /\ ParseLine(parsed[Len(parsed)]) = Text(<<"<think>">>)
    /\ mode = "ToolCalling"

\* C24: when the request was answered with a non-2xx status, complete has
\* resolved to its error with no event sent, no byte of the body read, no line
\* parsed and the mode as it began; complete resolves to () only on a 2xx
\* answer whose body was read to its end; and once the body is read to its
\* end, whatever lines were skipped, resolving to () is what comes next when
\* no transport error does.
C24_RequestErrorAndBodyEnd ==
    /\ status = "non2xx" =>
          /\ cpc = "failed"
          /\ events = <<>> /\ forwarded = <<>>
          /\ pos = 0 /\ parsed = <<>> /\ buffer = <<>>
          /\ mode = "none"
    /\ cpc = "done" => (status = "2xx" /\ pos = Len(body))
    /\ (cpc = "stream" /\ pos = Len(body)) => ENABLED BodyEnd

\* C24 witness: complete resolved to () at the end of a body of two lines,
\* both skipped.
C24_Witness ==
    /\ cpc = "done"
    /\ Len(parsed) = 2
    /\ events = <<>>

\* The Reply as it is when the k-th forwarded event is folded.
ReplyBefore(k) == ReplyOf(SubSeq(forwarded, 1, k - 1))

\* C26: each TextChanged that complete sent was folded onto a Reply whose
\* last output is a Reasoning or a Message, and each ToolCallAdded onto one
\* whose last output is a ToolCalls.
C26_TextAndCallsApplied ==
    \A k \in 1..Len(forwarded) :
        /\ forwarded[k].type = "TextChanged" =>
              /\ ReplyBefore(k) # <<>>
              /\ Last(ReplyBefore(k)).kind \in {"Reasoning", "Message"}
        /\ forwarded[k].type = "ToolCallAdded" =>
              /\ ReplyBefore(k) # <<>>
              /\ Last(ReplyBefore(k)).kind = "ToolCalls"

\* C26 witness: text sent after the close marker of a reasoning was folded,
\* and after it a new call.
C26_Witness ==
    /\ Len(forwarded) >= 4
    /\ forwarded[1] = OutputAdded(EmptyReasoning)
    /\ forwarded[2].type = "TextChanged"
    /\ Last(forwarded).type = "ToolCallAdded"
    /\ mode = "ToolCalling"

\* C27: each ArgumentsChanged that complete sent was folded onto a Reply
\* whose last output is a ToolCalls holding at least one call.
C27_FragmentsExtendACall ==
    \A k \in 1..Len(forwarded) :
        forwarded[k].type = "ArgumentsChanged" =>
            /\ ReplyBefore(k) # <<>>
            /\ Last(ReplyBefore(k)).kind = "ToolCalls"
            /\ Last(ReplyBefore(k)).calls # <<>>

\* The outputs of the OutputAdded events among evs, in order.
Added(evs) ==
    LET added == SelectSeq(evs, LAMBDA e : e.type = "OutputAdded")
    IN  [i \in 1..Len(added) |-> added[i].output]

\* s is t, or t with its last element changed, or t with elements after it.
KeepsButLast(s, t) ==
    /\ Len(s) >= Len(t)
    /\ \A i \in 1..(Len(t) - 1) : s[i] = t[i]
    /\ (Len(s) > Len(t) /\ t # <<>>) => s[Len(t)] = t[Len(t)]

\* C28: after any events were folded, the Reply has one output for each
\* OutputAdded folded, of its kind and in its place; each update keeps every
\* output but the last as it was, removes none, and where it leaves a ToolCalls
\* output last it keeps every call of it but the last as it was.
C28_UpdateTouchesOnlyLast ==
    /\ [](Kinds(outputs) = Kinds(Added(forwarded)))
    /\ [][/\ KeepsButLast(outputs', outputs)
          /\ (/\ Len(outputs') = Len(outputs)
              /\ outputs # <<>>
              /\ Last(outputs).kind = "ToolCalls") =>
                 /\ Last(outputs').kind = "ToolCalls"
                 /\ KeepsButLast(Last(outputs').calls, Last(outputs).calls)]_vars

\* C28 witness: two calls were added to a ToolCalls output and a fragment
\* folded after them: the second call has it, the first has not.
C28_Witness ==
    /\ Len(outputs) = 1
    /\ outputs[1].kind = "ToolCalls"
    /\ Len(outputs[1].calls) = 2
    /\ Len(outputs[1].calls[1].arguments) = 1
    /\ Len(outputs[1].calls[2].arguments) = 2

\* The bytes of the body received so far.
Received == SubSeq(body, 1, pos)

\* The place of the last newline received, 0 when none was.
LastNewline ==
    IF \A i \in 1..pos : body[i] # NL THEN 0
    ELSE CHOOSE i \in 1..pos : body[i] = NL /\ \A j \in (i + 1)..pos : body[j] # NL

\* C29: the buffer holds no newline and is the bytes received after the last
\* newline; the lines handed to the parser are the non-empty lines received up
\* to that newline, so the bytes after it are parsed by no one; and when the
\* body is exhausted the events sent are those of these lines alone.
C29_TrailingFragmentDiscarded ==
    /\ \A i \in 1..Len(buffer) : buffer[i] # NL
    /\ buffer = SubSeq(body, LastNewline + 1, pos)
    /\ parsed = Lines(SubSeq(body, 1, LastNewline))
    /\ cpc = "done" =>
          NoElapsedAll(events)
             = NoElapsedAll(ProcessLines(ModeStart,
                                         Lines(SubSeq(body, 1, LastNewline)), 0).out)

\* C29 witness: the body ended with a data line that has no newline; it is
\* in the buffer, complete has resolved, and no event was sent.
C29_Witness ==
    /\ cpc = "done"
    /\ buffer = DataPrefix \o <<SP, "Ta">>
    /\ events = <<>>

----------------------------------------------------------------------------
(* Properties of Reason::boot, Reason::connect and the Server handle       *)

Resolved == result \notin {"pending", "dropped"}

Count(seq, entry) == Cardinality({i \in 1..Len(seq) : seq[i] = entry})

Ran(program) == \E i \in 1..Len(trace) :
                    trace[i].type = "Command" /\ trace[i].program = program

BootEvents == SelectSeq(trace, LAMBDA e : e.type \in {"Progressed", "Logged"})

Stops == Count(trace, Command("docker", "stop"))

\* C4: connect, once its URL was parsed and a readiness request made, never
\* resolves to an error.
C4_ConnectNeverFails ==
    (op = "connect" /\ attempts > 0) => result \in {"pending", "Ok"}

\* C5: when boot is dropped before it resolves, a spawned llama-server is
\* killed, and a container whose id boot has read gets its `docker stop`.
C5_DroppedBootReleases ==
    (op = "boot" /\ result = "dropped") =>
        /\ child # "running"
        /\ container => Stops >= 1

\* C6: for a Reason booted onto a container, `docker stop` has been issued
\* once when no reference is left and not at all while one is alive, whatever
\* clones and drops were made; the boot's result stays Ok.
C6_StopOnceAtLastDrop ==
    (op = "boot" /\ result = "Ok" /\ server = "Container") =>
        Stops = (IF refs = 0 THEN 1 ELSE 0)

\* C6 witness: every clone allowed was made, and every reference dropped.
C6_Witness ==
    /\ op = "boot" /\ result = "Ok" /\ server = "Container"
    /\ clones = MaxClones /\ refs = 0 /\ Stops = 1

\* C7: boot never builds the Remote variant; where llama-server is installed
\* the executor is the Process variant and docker is never run; where it is
\* not and docker is, the executor is the Container variant and no server
\* process is spawned.
C7_LaunchStrategy ==
    op = "boot" =>
        /\ server # "Remote"
        /\ result = "Ok" => server # "none"
        /\ env.local => server \in {"none", "Process"} /\ ~Ran("docker")
        /\ (~env.local /\ env.docker) =>
              /\ server \in {"none", "Container"}
              /\ child = "none"
              /\ Count(trace, Command("llama-server", "--model")) = 0

\* C7 witness: llama-server is missing, docker is there, boot resolved onto a container.
C7_Witness ==
    /\ op = "boot" /\ ~env.local /\ env.docker
    /\ result = "Ok" /\ server = "Container"

\* C8: where neither llama-server nor docker is installed, boot resolves to
\* NoExecutorAvailable and to nothing else, having sent only
\* Progressed("Detecting executor...", 0) and run only the two probes, once
\* each: no process, no container command, no log task, no health poll.
C8_NoExecutor ==
    (op = "boot" /\ ~env.local /\ ~env.docker) =>
        /\ Resolved => result = "NoExecutorAvailable"
        /\ bpc \in {"start", "probe_local", "probe_docker", "resolved"}
        /\ Resolved => BootEvents = <<Progressed("Detecting executor...", 0)>>
        /\ \A i \in 1..Len(trace) :
              trace[i] \in { Progressed("Detecting executor...", 0),
                             Command("llama-server", "--version"),
                             Command("docker", "version") }
        /\ Count(trace, Command("llama-server", "--version")) <= 1
        /\ Count(trace, Command("docker", "version")) <= 1
        /\ child = "none" /\ create = "none" /\ server = "none"
        /\ logTask = "none" /\ progressTask = "none"
        /\ attempts = 0 /\ sleeps = 0

\* C8 witness: both probes failed and boot resolved.
C8_Witness ==
    /\ op = "boot" /\ ~env.local /\ ~env.docker
    /\ result = "NoExecutorAvailable"
    /\ Count(trace, Command("docker", "version")) = 1

\* C10: an I/O error met while spawning the executor's commands or reading
\* their output has made boot resolve to the IOFailed error.
C10_IoErrorIsFatal == (op = "boot" /\ ioErrors > 0) => result = "IOFailed"

\* boot is in its readiness poll.
Polling == op = "boot" /\ result = "pending" /\ bpc \in {"poll_sleep", "poll_request"}

\* C15: boot never resolves to ExecutorFailed, whether or not the launched
\* llama-server has exited; and when boot has resolved Ok, a health request
\* was made and the last one made returned 2xx.
C15_PollNeverGivesUp ==
    /\ result # "ExecutorFailed"
    /\ (op = "boot" /\ result = "Ok") => (healthOk /\ attempts >= 1)

\* C15 witness: the launched llama-server has exited, its log stream has
\* ended, a health request has failed, and boot is still polling.
C15_Witness ==
    /\ Polling
    /\ executor = "exited"
    /\ logTask = "ended"
    /\ attempts >= 1
    /\ ~healthOk

\* C16: when boot has resolved Ok, a health request returned 2xx and the log
\* task runs no more; the log task is cancelled only when boot resolves Ok;
\* and while boot polls and the log task runs, a step of either can come next.
C16_OkAfterReadyAndAbort ==
    /\ (op = "boot" /\ result = "Ok") => (healthOk /\ logTask \in {"aborted", "ended"})
    /\ logTask = "aborted" => (result = "Ok" /\ healthOk)
    /\ (Polling /\ logTask = "running") =>
          (ENABLED LogTaskStep /\ ENABLED (PollSleep \/ PollRequest))

\* C16 witness: boot resolved Ok at its second health request or later, the
\* log task having re-emitted a line and being cancelled while it ran.
C16_Witness ==
    /\ op = "boot" /\ result = "Ok"
    /\ logTask = "aborted"
    /\ attempts >= 2
    /\ Count(trace, Logged("log")) >= 1

\* C17: once boot is polling, it resolves only by a health request answered
\* 2xx, and then to Ok (or its consumer drops it); a health request answered
\* 2xx resolves it at once; and as long as it is neither resolved nor dropped
\* the poll goes on, each sleep followed by a request and each request that is
\* not answered 2xx by a sleep, whatever the number of requests made and
\* whether or not the log stream has ended.
C17_ResolvesIffHealthy ==
    /\ [][(Polling /\ result' # "pending")
             => (result' = "dropped" \/ (result' = "Ok" /\ healthOk'))]_vars
    /\ []((op = "boot" /\ healthOk) => result = "Ok")
    /\ (Polling /\ bpc = "poll_sleep") ~> (~Polling \/ bpc = "poll_request")
    /\ (Polling /\ bpc = "poll_request") ~> (~Polling \/ bpc = "poll_sleep")

\* C17 witness: as many health requests as the model counts were made, none
\* answered 2xx, the log stream has ended, and boot is still polling.
C17_Witness ==
    /\ Polling
    /\ attempts = MaxAttempts
    /\ sleeps = MaxAttempts
    /\ logTask = "ended"
    /\ ~healthOk

\* C18: in connect, as long as the sleeps are counted exactly: when a request
\* is about to be made, as many sleeps as requests were made (none before the
\* first request); when connect sleeps or has resolved Ok, one sleep less than
\* requests: each request but the last was refused and followed by one sleep.
C18_OneSleepPerRefusal ==
    (op = "connect" /\ sleeps < MaxAttempts) =>
        /\ At("request") => sleeps = attempts
        /\ At("sleep") => sleeps = attempts - 1
        /\ result = "Ok" => sleeps = attempts - 1

\* C18 witness: connect resolved Ok at its third request, after two sleeps.
C18_Witness == op = "connect" /\ result = "Ok" /\ attempts = 3 /\ sleeps = 2

\* C19: when `docker create` exits with a non-zero status boot resolves to
\* DockerFailed; boot resolves to DockerFailed only when no container id was
\* read or that status was not zero; and when it has, no `docker start` and no
\* `docker logs` was run, Progressed("Launching assistant...", 99) was not
\* sent, no log task was spawned, no Server built, and no health poll begun.
C19_CreateFailureStopsBoot ==
    /\ create = "failed" => result = "DockerFailed"
    /\ result = "DockerFailed" =>
          /\ create = "failed" \/ ~container
          /\ Count(trace, Command("docker", "start")) = 0
          /\ Count(trace, Command("docker", "logs")) = 0
          /\ Count(trace, Progressed("Launching assistant...", 99)) = 0
          /\ logTask = "none" /\ server = "none" /\ executor = "none"
          /\ attempts = 0 /\ sleeps = 0 /\ ~healthOk

\* C19 witness: the container id was read, `docker create` then exited with a
\* non-zero status, and boot resolved.
C19_Witness == result = "DockerFailed" /\ container /\ create = "failed"

\* The place of the first `entry` in the trace, 0 when there is none.
FirstAt(entry) ==
    IF Count(trace, entry) = 0 THEN 0
    ELSE CHOOSE i \in 1..Len(trace) :
            trace[i] = entry /\ \A j \in 1..(i - 1) : trace[j] # entry

\* `later` has not happened, or `earlier` happened before it.
Precedes(earlier, later) ==
    FirstAt(later) > 0 => (FirstAt(earlier) > 0 /\ FirstAt(earlier) < FirstAt(later))

\* The Progressed events sent, in order.
ProgressSent == SelectSeq(trace, LAMBDA e : e.type = "Progressed")

\* C23: in boot, Progressed("Detecting executor...", 0) is the first entry of
\* the trace and comes before both probes; Progressed("Launching
\* assistant...", 99) comes before the spawn of llama-server;
\* Progressed("Preparing container...", 0) comes before `docker create`; on the
\* container path Progressed("Launching assistant...", 99) comes after `docker
\* create`, which has then exited with success, and before `docker start`; and
\* the percents of the Progressed events never decrease.
C23_ProgressOrdered ==
    op = "boot" =>
        LET detecting == Progressed("Detecting executor...", 0)
            preparing == Progressed("Preparing container...", 0)
            launching == Progressed("Launching assistant...", 99)
        IN  /\ trace # <<>> => trace[1] = detecting
            /\ Precedes(detecting, Command("llama-server", "--version"))
            /\ Precedes(detecting, Command("docker", "version"))
            /\ Precedes(launching, Command("llama-server", "--model"))
            /\ Precedes(preparing, Command("docker", "create"))
            /\ (FirstAt(launching) > 0 /\ FirstAt(preparing) > 0) =>
                  /\ FirstAt(Command("docker", "create")) < FirstAt(launching)
                  /\ create = "exited"
            /\ Precedes(launching, Command("docker", "start"))
            /\ \A i, j \in 1..Len(ProgressSent) :
                  i < j => ProgressSent[i].percent <= ProgressSent[j].percent

\* C23 witness: boot went the container path to the end: the three progress
\* notifications were sent and `docker start` was run.
C23_Witness ==
    /\ op = "boot" /\ result = "Ok"
    /\ Len(ProgressSent) = 3
    /\ Count(trace, Command("docker", "start")) = 1

====
